---- MODULE Spec2Model ----
(***************************************************************************)
(* A model of the dbus-python C bindings in _dbus_bindings:                *)
(*                                                                         *)
(*   pending-call-impl.h  the PendingCall type, which wraps one libdbus    *)
(*                        DBusPendingCall and hands its reply to a Python  *)
(*                        callable from whichever thread libdbus notifies  *)
(*                        on;                                              *)
(*   containers-impl.h    the Array, Dictionary and Struct types.          *)
(*                                                                         *)
(* The two parts share no state.  Spec is the PendingCall bridge running   *)
(* against libdbus and the interpreter lock; ContainerSpec is a caller     *)
(* driving the container types.                                            *)
(***************************************************************************)
EXTENDS Integers, Sequences, FiniteSets, TLC

(***************************************************************************)
(* PART 1.  PendingCall (pending-call-impl.h)                              *)
(***************************************************************************)

\* The two execution contexts: the host's Python thread, and the thread in
\* which libdbus dispatches incoming messages.
Ctx == {"host", "lib"}

\* The handle given to PendingCall_ConsumeDBusPendingCall is "h1".  "h2" is
\* another live DBusPendingCall of the process, owned by somebody else.
Handles == {"h1", "h2"}

\* What the pc field of a PendingCall can hold.  PyObject_New does not clear
\* the memory it returns, so until line 149 assigns it the field holds
\* whatever the recycled block held: nothing, a pointer to this handle or to
\* another one, or a pointer to no handle at all.
Pointers == {"NULL", "wild"} \cup Handles

VARIABLES
    gil,          \* who holds the interpreter lock: "none", "host" or "lib"
    hpc,          \* where the host thread is
    after,        \* where the host continues once tp_dealloc returns
    self,         \* the PendingCall object: [state, pcf]
    refs,         \* libdbus: reference count of each handle
    attached,     \* libdbus: h1 is in its connection's table of pending replies
    completed,    \* libdbus: h1's completed flag
    reply,        \* libdbus: the reply stored in h1, "none" or "m1"
    notify,       \* libdbus: h1 has a notify function and its user data
    cb,           \* the run of _pending_call_notify_function in each context
    crashed,      \* an invalid pointer was handed to libdbus
    err,          \* the Python exception set in the host thread
    hIncref,      \* Py_INCREFs of the callable made by the bridge
    hDecref,      \* Py_DECREFs of the callable made by the bridge or for it
    handlerArgs,  \* the arguments of each call of the callable, in order
    warnings,     \* PyErr_Warn calls
    unrefCalls,   \* dbus_pending_call_unref calls made by the bridge, per pointer
    cancelCalls,  \* dbus_pending_call_cancel calls made by ConsumeDBusPendingCall
    created,      \* ConsumeDBusPendingCall returned the PendingCall
    replyArrived, \* "no", or when the reply arrived: "early" or "late"
    cancelledFirst, \* cancel() reached libdbus before any reply had arrived
    blockReturned,  \* _block() has returned to its caller
    lastCompleted,  \* get_completed() has returned True
    ret,          \* the local ret of ConsumeDBusPendingCall and of get_completed
    obj,          \* containers: the instance the caller holds
    cres,         \* containers: how the caller's last call ended
    lcall,        \* containers: the caller's last call
    out,          \* containers: the text repr() returned to the caller
    owned,        \* containers: references the last operation took and kept
    sigrefs       \* containers: per signature object, the references to it
                  \* that the instance owns

bvars == <<gil, hpc, after, self, refs, attached, completed, reply, notify, cb,
           crashed, err, hIncref, hDecref, handlerArgs, warnings, unrefCalls,
           cancelCalls, created, replyArrived, cancelledFirst, blockReturned,
           lastCompleted, ret>>

cvars == <<obj, cres, lcall, out, owned, sigrefs>>

vars == <<bvars, cvars>>

(***************************************************************************)
(* The values a caller hands to the container types (containers-impl.h).   *)
(***************************************************************************)

\* The longest iterable a caller passes, and the longest list it grows.
MaxLen == 2

\* The largest variant_level a caller passes.
MaxVL == 1

Items == {"x", "y"}

\* Texts the Signature type accepts, and one it rejects.
ValidTexts == {"i"}
InvalidTexts == {"!"}

\* First argument: left out, an iterable (for a Dictionary: the mapping from
\* 1..n to its items), or a value that cannot be iterated.  The iterables a
\* caller passes hold no item twice; a container can come to hold one twice
\* by the caller's later changes.
Iterables ==
    {[t |-> "omitted", items |-> <<>>], [t |-> "noniter", items |-> <<>>]}
    \cup {[t |-> "seq", items |-> xs] :
             xs \in {ys \in UNION {[1..n -> Items] : n \in 0..MaxLen} :
                        \A a, b \in DOMAIN ys : ys[a] = ys[b] => a = b}}

\* Second argument: left out, None, a Signature instance, a str, or a value
\* of another type.
PyNone == [t |-> "None", text |-> ""]
SigArgs ==
    {[t |-> "omitted", text |-> ""], PyNone, [t |-> "int", text |-> ""]}
    \cup {[t |-> "Signature", text |-> x] : x \in ValidTexts}
    \cup {[t |-> "str", text |-> x] : x \in ValidTexts \cup InvalidTexts}

\* Third argument: left out, a Python int, or a value that is no integer.
VLArgs ==
    {[t |-> "omitted", v |-> 0], [t |-> "str", v |-> 0]}
    \cup {[t |-> "int", v |-> n] : n \in -1..MaxVL}

\* A call: the first n of (iterable, signature, variant_level) are passed by
\* position, the others that are not left out by keyword; n = 4 is a call
\* with one positional argument too many.  mem says whether the interpreter
\* has memory for the temporary tuple of tp_init; running out of it is tried
\* on the calls that pass at most a signature, by keyword.
Calls ==
    {c \in [n : 0..4, it : Iterables, sig : SigArgs, vl : VLArgs,
            mem : BOOLEAN] :
        /\ c.n >= 1 => c.it.t # "omitted"
        /\ c.n >= 2 => c.sig.t # "omitted"
        /\ c.n >= 3 => c.vl.t # "omitted"
        /\ ~c.mem => (c.n = 0 /\ c.it.t = "omitted" /\ c.vl.t = "omitted")}

\* What the model remembers of a call: which operation it was, the signature
\* and variant_level passed, and whether variant_level was a keyword.  Of a
\* call that constructs (the type called, or its __new__) it also remembers
\* the type, the iterable and the number of positional arguments.
Args(kind, call, op) ==
    [op |-> op, sig |-> call.sig, vl |-> call.vl,
     vlkw |-> call.n < 3 /\ call.vl.t # "omitted",
     kind |-> kind,
     n |-> IF op = "init" THEN 0 ELSE call.n,
     it |-> IF op = "init" THEN [t |-> "omitted", items |-> <<>>]
            ELSE call.it]

NoCall == [op |-> "none", sig |-> [t |-> "omitted", text |-> ""],
           vl |-> [t |-> "omitted", v |-> 0], vlkw |-> FALSE,
           kind |-> "Array", n |-> 0,
           it |-> [t |-> "omitted", items |-> <<>>]]

Kinds == {"Array", "Dict", "Struct"}

\* The objects a signature member can refer to, and the count of owned
\* references (Py_INCREF adds one, Py_DECREF takes one away).
SigObjects == {PyNone} \cup {[t |-> "Signature", text |-> x] : x \in ValidTexts}
NoRefs == [o \in SigObjects |-> 0]
Incref(counts, o) == [counts EXCEPT ![o] = @ + 1]
Decref(counts, o) == [counts EXCEPT ![o] = @ - 1]
RECURSIVE IncrefEach(_, _)
IncrefEach(counts, os) ==
    IF os = <<>> THEN counts ELSE IncrefEach(Incref(counts, Head(os)), Tail(os))
RECURSIVE DecrefEach(_, _)
DecrefEach(counts, os) ==
    IF os = <<>> THEN counts ELSE DecrefEach(Decref(counts, Head(os)), Tail(os))

NoObject == [state |-> "none", kind |-> "Array", elems |-> <<>>,
             signature |-> PyNone, variant_level |-> 0]

\* The display form of a container: the type's name, the display form of
\* the base container, that of the signature, and the variant_level clause
\* (a sequence holding the number shown, empty when there is no clause).
NoRepr == [name |-> "", base |-> <<>>, signature |-> PyNone, clause |-> <<>>]

\* A run of the notify function that has not started.  pos is the statement
\* the run is at, msg the local msg, took whether PyGILState_Ensure took the
\* lock (the local gil), acq and rel count the run's Ensure and Release
\* calls, path names the branch the run took, mrefs counts the references to
\* the decoded Message (the local msg_obj) that the run owns.  py tells
\* whether the statement the run is at has entered Python code (the handler,
\* or the warnings machinery under PyErr_Warn): "none" before it has,
\* "running" while that code runs, "waiting" while it has given the
\* interpreter lock up and waits to get it back.
CbIdle == [pos |-> "idle", msg |-> "none", acq |-> 0, rel |-> 0,
           took |-> FALSE, path |-> "none", mrefs |-> 0, py |-> "none"]

\* The host thread is running Python code between two calls into the bridge.
HostPy == hpc \in {"start", "idle", "failed", "gone"}

Init ==
    /\ gil = "host"
    /\ hpc = "start"
    /\ after = "none"
    /\ self = [state |-> "none", pcf |-> "NULL"]
    /\ refs = [h \in Handles |-> IF h = "h1" THEN 2 ELSE 1]
    /\ attached = TRUE
    /\ completed = FALSE
    /\ reply = "none"
    /\ notify = FALSE
    /\ cb = [c \in Ctx |-> CbIdle]
    /\ crashed = FALSE
    /\ err = "none"
    /\ hIncref = 0
    /\ hDecref = 0
    /\ handlerArgs = <<>>
    /\ warnings = 0
    /\ unrefCalls = [p \in Pointers |-> 0]
    /\ cancelCalls = 0
    /\ created = FALSE
    /\ replyArrived = "no"
    /\ cancelledFirst = FALSE
    /\ blockReturned = FALSE
    /\ lastCompleted = FALSE
    /\ ret = FALSE
    /\ obj = NoObject
    /\ cres = "none"
    /\ lcall = NoCall
    /\ out = NoRepr
    /\ owned = {}
    /\ sigrefs = NoRefs

(***************************************************************************)
(* libdbus and the glue the bridge hands to it.  None of this is in        *)
(* pending-call-impl.h: it is modelled from the call-handle protocol the   *)
(* bridge is written against.                                              *)
(***************************************************************************)

\* Glue_TakeGILAndXDecref(callable), the DBusFreeFunction registered at line
\* 136: takes the interpreter lock (it may already be held by the calling
\* context), drops one reference to the callable, and gives the lock back.
Glue_TakeGILAndXDecref(c) ==
    /\ gil \in {"none", c}
    /\ hDecref' = hDecref + 1

\* dbus_pending_call_unref(p) called in context c.  A pointer to no handle,
\* or to a handle already finalized, is an invalid access.  The last
\* reference finalizes the handle, which frees its user data through the
\* registered free function.
LibUnref(c, p) ==
    IF p \notin Handles \/ refs[p] = 0
    THEN /\ crashed' = TRUE
         /\ UNCHANGED <<refs, notify, hDecref>>
    ELSE /\ refs' = [refs EXCEPT ![p] = @ - 1]
         /\ IF p = "h1" /\ refs[p] = 1 /\ notify
            THEN notify' = FALSE /\ Glue_TakeGILAndXDecref(c)
            ELSE UNCHANGED <<notify, hDecref>>
         /\ UNCHANGED crashed

\* dbus_pending_call_cancel(p) called in context c: takes the handle out of
\* the connection's table of pending replies, which drops the connection's
\* reference; any reply that comes later finds no pending call and is
\* ignored.  On a handle no longer in the table it does nothing.
LibCancel(c, p) ==
    IF p \notin Handles \/ refs[p] = 0
    THEN /\ crashed' = TRUE
         /\ UNCHANGED <<attached, refs, notify, hDecref>>
    ELSE IF p = "h1" /\ attached
         THEN attached' = FALSE /\ LibUnref(c, p)
         ELSE UNCHANGED <<attached, refs, notify, hDecref, crashed>>

\* dbus_pending_call_set_notify(h1, function, user_data, free): registers
\* them and returns TRUE, or registers nothing (and frees nothing) and
\* returns FALSE when out of memory.
LibSetNotify(r) ==
    notify' = r

\* libdbus completes h1 in context c with the reply m (or with no reply, when
\* a blocking wait times out): it stores the reply, sets the completed flag,
\* takes the handle out of the table (keeping a reference of its own for the
\* duration), and then calls the notify function, if one is registered.
LibComplete(c, m) ==
    /\ reply' = m
    /\ completed' = TRUE
    /\ attached' = FALSE
    /\ refs' = IF attached THEN refs ELSE [refs EXCEPT !["h1"] = @ + 1]
    /\ cb' = [cb EXCEPT ![c] = [CbIdle EXCEPT !.pos = IF notify THEN "ensure"
                                                      ELSE "return"]]

\* The dispatching thread reads the reply to h1 from the connection.
LibDispatchReply ==
    /\ ~crashed
    /\ attached /\ ~completed
    /\ cb["lib"].pos = "idle"
    /\ LibComplete("lib", "m1")
    /\ replyArrived' = IF created THEN "late" ELSE "early"
    /\ UNCHANGED <<gil, hpc, after, self, notify, crashed, err, hIncref,
                   hDecref, handlerArgs, warnings, unrefCalls, cancelCalls,
                   created, cancelledFirst, blockReturned, lastCompleted, ret>>
    /\ UNCHANGED cvars

\* The notify function has returned to libdbus in context c, which drops the
\* reference it kept for the duration of the completion.
LibAfterNotify(c) ==
    /\ ~crashed
    /\ cb[c].pos = "return"
    /\ LibUnref(c, "h1")
    /\ cb' = [cb EXCEPT ![c] = CbIdle]
    /\ UNCHANGED <<gil, hpc, after, self, attached, completed, reply, err,
                   hIncref, handlerArgs, warnings, unrefCalls, cancelCalls,
                   created, replyArrived, cancelledFirst, blockReturned,
                   lastCompleted, ret>>
    /\ UNCHANGED cvars

(***************************************************************************)
(* _pending_call_notify_function (lines 73-98), one action per statement.  *)
(* libdbus calls it in the dispatching thread, or in the host thread from  *)
(* inside dbus_pending_call_block.                                         *)
(***************************************************************************)

\* Message_ConsumeDBusMessage(msg): the Message wrapping msg, or NULL when
\* out of memory.
Message_ConsumeDBusMessage(m, ok) ==
    IF ok THEN [type |-> "Message", of |-> m]
          ELSE [type |-> "NULL", of |-> "none"]

\* A mutant of NotifyEnsure that goes on without the lock.
NotifyEnsure_NoLock(c) ==
    /\ ~crashed
    /\ cb[c].pos = "ensure"
    /\ cb' = [cb EXCEPT ![c].pos = "steal", ![c].acq = @ + 1]
    /\ UNCHANGED <<gil, hpc, after, self, refs, attached, completed, reply,
                   notify, crashed, err, hIncref, hDecref, handlerArgs,
                   warnings, unrefCalls, cancelCalls, created, replyArrived,
                   cancelledFirst, blockReturned, lastCompleted, ret>>
    /\ UNCHANGED cvars

\* Line 77: PyGILState_Ensure().  It waits until the lock is free and takes
\* it, unless the calling thread holds it already.
NotifyEnsure(c) ==
    /\ ~crashed
    /\ cb[c].pos = "ensure"
    /\ IF gil = c
       THEN /\ UNCHANGED gil
            /\ cb' = [cb EXCEPT ![c].pos = "steal", ![c].acq = @ + 1]
       ELSE /\ gil = "none"
            /\ gil' = c
            /\ cb' = [cb EXCEPT ![c].pos = "steal", ![c].acq = @ + 1,
                                ![c].took = TRUE]
    /\ UNCHANGED <<hpc, after, self, refs, attached, completed, reply,
                   notify, crashed, err, hIncref, hDecref, handlerArgs,
                   warnings, unrefCalls, cancelCalls, created, replyArrived,
                   cancelledFirst, blockReturned, lastCompleted, ret>>
    /\ UNCHANGED cvars

\* A mutant of NotifySteal that reads the stored reply and leaves it there.
NotifySteal_Peeks(c) ==
    /\ ~crashed
    /\ cb[c].pos = "steal"
    /\ cb' = [cb EXCEPT ![c].msg = reply,
                        ![c].pos = IF reply = "none" THEN "warn" ELSE "decode"]
    /\ UNCHANGED <<gil, hpc, after, self, refs, attached, completed, notify,
                   reply, crashed, err, hIncref, hDecref, handlerArgs,
                   warnings, unrefCalls, cancelCalls, created, replyArrived,
                   cancelledFirst, blockReturned, lastCompleted, ret>>
    /\ UNCHANGED cvars

\* Lines 78 and 80: dbus_pending_call_steal_reply(pc) returns the stored
\* reply and clears it.
NotifySteal(c) ==
    /\ ~crashed
    /\ cb[c].pos = "steal"
    /\ reply' = "none"
    /\ cb' = [cb EXCEPT ![c].msg = reply,
                        ![c].pos = IF reply = "none" THEN "warn" ELSE "decode"]
    /\ UNCHANGED <<gil, hpc, after, self, refs, attached, completed, notify,
                   crashed, err, hIncref, hDecref, handlerArgs, warnings,
                   unrefCalls, cancelCalls, created, replyArrived,
                   cancelledFirst, blockReturned, lastCompleted, ret>>
    /\ UNCHANGED cvars

\* A mutant of NotifyWarn that treats the missing reply as fatal.
NotifyWarn_Aborts(c) ==
    /\ ~crashed
    /\ cb[c].pos = "warn" /\ cb[c].py = "none"
    /\ crashed' = TRUE
    /\ cb' = [cb EXCEPT ![c].pos = "release", ![c].path = "noreply"]
    /\ UNCHANGED <<gil, hpc, after, self, refs, attached, completed, reply,
                   notify, err, hIncref, hDecref, handlerArgs, warnings,
                   unrefCalls, cancelCalls, created, replyArrived,
                   cancelledFirst, blockReturned, lastCompleted, ret>>
    /\ UNCHANGED cvars

\* Lines 83-84: no reply; PyErr_Warn is entered.  It runs the warnings
\* machinery, which is Python code.
NotifyWarn(c) ==
    /\ ~crashed
    /\ cb[c].pos = "warn" /\ cb[c].py = "none"
    /\ warnings' = warnings + 1
    /\ cb' = [cb EXCEPT ![c].py = "running"]
    /\ UNCHANGED <<gil, hpc, after, self, refs, attached, completed, reply,
                   notify, crashed, err, hIncref, hDecref, handlerArgs,
                   unrefCalls, cancelCalls, created, replyArrived,
                   cancelledFirst, blockReturned, lastCompleted, ret>>
    /\ UNCHANGED cvars

\* PyErr_Warn returns: 0, or -1 with UserWarning set in the calling thread
\* when the filters turn the warning into an error.  The function ignores
\* the result and clears nothing, so in the host thread the exception stays
\* set; in the dispatching thread it is that thread's own.
NotifyWarnDone(c, error) ==
    /\ ~crashed
    /\ cb[c].pos = "warn" /\ cb[c].py = "running"
    /\ err' = IF error /\ c = "host" THEN "UserWarning" ELSE err
    /\ cb' = [cb EXCEPT ![c].pos = "release", ![c].path = "noreply",
                        ![c].py = "none"]
    /\ UNCHANGED <<gil, hpc, after, self, refs, attached, completed, reply,
                   notify, crashed, hIncref, hDecref, handlerArgs, warnings,
                   unrefCalls, cancelCalls, created, replyArrived,
                   cancelledFirst, blockReturned, lastCompleted, ret>>
    /\ UNCHANGED cvars

\* The Python code run from inside the notify function (the handler, the
\* warnings machinery) gives the interpreter lock up, in a blocking call or
\* when the interpreter switches threads, and later takes it back.
PyGiveUp(c) ==
    /\ ~crashed
    /\ cb[c].py = "running" /\ gil = c
    /\ gil' = "none"
    /\ cb' = [cb EXCEPT ![c].py = "waiting"]
    /\ UNCHANGED <<hpc, after, self, refs, attached, completed, reply, notify,
                   crashed, err, hIncref, hDecref, handlerArgs, warnings,
                   unrefCalls, cancelCalls, created, replyArrived,
                   cancelledFirst, blockReturned, lastCompleted, ret>>
    /\ UNCHANGED cvars

PyTakeBack(c) ==
    /\ ~crashed
    /\ cb[c].py = "waiting" /\ gil = "none"
    /\ gil' = c
    /\ cb' = [cb EXCEPT ![c].py = "running"]
    /\ UNCHANGED <<hpc, after, self, refs, attached, completed, reply, notify,
                   crashed, err, hIncref, hDecref, handlerArgs, warnings,
                   unrefCalls, cancelCalls, created, replyArrived,
                   cancelledFirst, blockReturned, lastCompleted, ret>>
    /\ UNCHANGED cvars

\* A mutant of NotifyDecode that returns from the function as soon as the
\* decoding fails.
NotifyDecode_EarlyReturn(c, ok) ==
    /\ ~crashed
    /\ cb[c].pos = "decode"
    /\ cb' = IF Message_ConsumeDBusMessage(cb[c].msg, ok).type # "NULL"
             THEN [cb EXCEPT ![c].pos = "call", ![c].mrefs = @ + 1]
             ELSE [cb EXCEPT ![c].pos = "return", ![c].path = "decodefail"]
    /\ err' = IF Message_ConsumeDBusMessage(cb[c].msg, ok).type = "NULL"
                 /\ c = "host"
              THEN "MemoryError" ELSE err
    /\ UNCHANGED <<gil, hpc, after, self, refs, attached, completed, reply,
                   notify, crashed, hIncref, hDecref, handlerArgs,
                   warnings, unrefCalls, cancelCalls, created, replyArrived,
                   cancelledFirst, blockReturned, lastCompleted, ret>>
    /\ UNCHANGED cvars

\* Lines 86 and 88: decode the reply into a Message the function owns one
\* reference to; when that fails (lines 93-94) there is nothing to call the
\* handler with, and the MemoryError the failed call set is left as it is:
\* in the host thread it stays set when the function returns.
NotifyDecode(c, ok) ==
    /\ ~crashed
    /\ cb[c].pos = "decode"
    /\ cb' = IF Message_ConsumeDBusMessage(cb[c].msg, ok).type # "NULL"
             THEN [cb EXCEPT ![c].pos = "call", ![c].mrefs = @ + 1]
             ELSE [cb EXCEPT ![c].pos = "release", ![c].path = "decodefail"]
    /\ err' = IF Message_ConsumeDBusMessage(cb[c].msg, ok).type = "NULL"
                 /\ c = "host"
              THEN "MemoryError" ELSE err
    /\ UNCHANGED <<gil, hpc, after, self, refs, attached, completed, reply,
                   notify, crashed, hIncref, hDecref, handlerArgs,
                   warnings, unrefCalls, cancelCalls, created, replyArrived,
                   cancelledFirst, blockReturned, lastCompleted, ret>>
    /\ UNCHANGED cvars

\* Line 89: the handler is entered, with the Message as its one argument.
\* Nothing on lines 89-95 drops msg_obj.
NotifyCall(c) ==
    /\ ~crashed
    /\ cb[c].pos = "call" /\ cb[c].py = "none"
    /\ handlerArgs' = Append(handlerArgs,
                             <<Message_ConsumeDBusMessage(cb[c].msg, TRUE)>>)
    /\ cb' = [cb EXCEPT ![c].py = "running"]
    /\ UNCHANGED <<gil, hpc, after, self, refs, attached, completed, reply,
                   notify, crashed, err, hIncref, hDecref, warnings,
                   unrefCalls, cancelCalls, created, replyArrived,
                   cancelledFirst, blockReturned, lastCompleted, ret>>
    /\ UNCHANGED cvars

\* Lines 89 and 91: the handler is over; what it returned is dropped.  A
\* handler that raises returns NULL, which Py_XDECREF ignores; the
\* exception is neither cleared nor printed, so in the host thread (a reply
\* delivered inside _block()) it stays set when the function returns.
NotifyCallDone(c, raises) ==
    /\ ~crashed
    /\ cb[c].pos = "call" /\ cb[c].py = "running"
    /\ err' = IF raises /\ c = "host" THEN "ValueError" ELSE err
    /\ cb' = [cb EXCEPT ![c].pos = "release", ![c].py = "none",
                        ![c].path = IF raises THEN "raised" ELSE "returned"]
    /\ UNCHANGED <<gil, hpc, after, self, refs, attached, completed, reply,
                   notify, crashed, hIncref, hDecref, handlerArgs, warnings,
                   unrefCalls, cancelCalls, created, replyArrived,
                   cancelledFirst, blockReturned, lastCompleted, ret>>
    /\ UNCHANGED cvars

\* Line 97: PyGILState_Release(gil) gives the lock back if Ensure took it;
\* the function returns to libdbus.
NotifyRelease(c) ==
    /\ ~crashed
    /\ cb[c].pos = "release"
    /\ gil' = IF cb[c].took THEN "none" ELSE gil
    /\ cb' = [cb EXCEPT ![c].pos = "return", ![c].rel = @ + 1]
    /\ UNCHANGED <<hpc, after, self, refs, attached, completed, reply,
                   notify, crashed, err, hIncref, hDecref, handlerArgs,
                   warnings, unrefCalls, cancelCalls, created, replyArrived,
                   cancelledFirst, blockReturned, lastCompleted, ret>>
    /\ UNCHANGED cvars

(***************************************************************************)
(* PendingCall_ConsumeDBusPendingCall(pc = h1, callable), lines 117-151.   *)
(***************************************************************************)

\* Lines 121-133: PyObject_New gives a PendingCall whose pc field holds g,
\* whatever the memory held, or fails; then Py_INCREF(callable) and
\* Py_BEGIN_ALLOW_THREADS (or, when there is no object, the one of line 124).
ConsumeNew(ok, g) ==
    /\ ~crashed
    /\ hpc = "start" /\ gil = "host"
    /\ IF ok
       THEN /\ self' = [state |-> "alive", pcf |-> g]
            /\ hIncref' = hIncref + 1
            /\ hpc' = "c_setnotify"
            /\ UNCHANGED err
       ELSE /\ err' = "MemoryError"
            /\ hpc' = "c_cancel"
            /\ UNCHANGED <<self, hIncref>>
    /\ gil' = "none"
    /\ UNCHANGED <<after, refs, attached, completed, reply, notify, cb,
                   crashed, hDecref, handlerArgs, warnings, unrefCalls,
                   cancelCalls, created, replyArrived, cancelledFirst,
                   blockReturned, lastCompleted, ret>>
    /\ UNCHANGED cvars

\* Lines 134-136: ret = dbus_pending_call_set_notify(...).
ConsumeSetNotify(r) ==
    /\ ~crashed
    /\ hpc = "c_setnotify"
    /\ LibSetNotify(r)
    /\ ret' = r
    /\ hpc' = "c_endallow"
    /\ UNCHANGED <<gil, after, self, refs, attached, completed, reply, cb,
                   crashed, err, hIncref, hDecref, handlerArgs, warnings,
                   unrefCalls, cancelCalls, created, replyArrived,
                   cancelledFirst, blockReturned, lastCompleted>>
    /\ UNCHANGED cvars

\* Lines 137 and 139: Py_END_ALLOW_THREADS waits for the lock; then the test
\* of ret.
ConsumeEndAllow ==
    /\ ~crashed
    /\ hpc = "c_endallow" /\ gil = "none"
    /\ gil' = "host"
    /\ hpc' = IF ret THEN "c_assign" ELSE "c_fail"
    /\ UNCHANGED <<after, self, refs, attached, completed, reply, notify, cb,
                   crashed, err, hIncref, hDecref, handlerArgs, warnings,
                   unrefCalls, cancelCalls, created, replyArrived,
                   cancelledFirst, blockReturned, lastCompleted, ret>>
    /\ UNCHANGED cvars

\* Lines 140-142: PyErr_NoMemory(), Py_DECREF(callable), and Py_DECREF(self),
\* which drops the only reference to self and so runs tp_dealloc.
ConsumeFail ==
    /\ ~crashed
    /\ hpc = "c_fail"
    /\ err' = "MemoryError"
    /\ hDecref' = hDecref + 1
    /\ hpc' = "d_check"
    /\ after' = "c_beginallow"
    /\ UNCHANGED <<gil, self, refs, attached, completed, reply, notify, cb,
                   crashed, hIncref, handlerArgs, warnings, unrefCalls,
                   cancelCalls, created, replyArrived, cancelledFirst,
                   blockReturned, lastCompleted, ret>>
    /\ UNCHANGED cvars

\* Line 143: Py_BEGIN_ALLOW_THREADS.
ConsumeBeginAllow ==
    /\ ~crashed
    /\ hpc = "c_beginallow"
    /\ gil' = "none"
    /\ hpc' = "c_cancel"
    /\ UNCHANGED <<after, self, refs, attached, completed, reply, notify, cb,
                   crashed, err, hIncref, hDecref, handlerArgs, warnings,
                   unrefCalls, cancelCalls, created, replyArrived,
                   cancelledFirst, blockReturned, lastCompleted, ret>>
    /\ UNCHANGED cvars

\* Line 144 (and line 125): dbus_pending_call_cancel(pc).
ConsumeCancel ==
    /\ ~crashed
    /\ hpc = "c_cancel"
    /\ LibCancel("host", "h1")
    /\ cancelCalls' = cancelCalls + 1
    /\ hpc' = "c_unref"
    /\ UNCHANGED <<gil, after, self, completed, reply, cb, err, hIncref,
                   handlerArgs, warnings, unrefCalls, created, replyArrived,
                   cancelledFirst, blockReturned, lastCompleted, ret>>
    /\ UNCHANGED cvars

\* Line 145 (and line 126): dbus_pending_call_unref(pc).
ConsumeUnref ==
    /\ ~crashed
    /\ hpc = "c_unref"
    /\ LibUnref("host", "h1")
    /\ unrefCalls' = [unrefCalls EXCEPT !["h1"] = @ + 1]
    /\ hpc' = "c_return"
    /\ UNCHANGED <<gil, after, self, attached, completed, reply, cb, err,
                   hIncref, handlerArgs, warnings, cancelCalls, created,
                   replyArrived, cancelledFirst, blockReturned,
                   lastCompleted, ret>>
    /\ UNCHANGED cvars

\* Lines 146-147 (and 127-128): Py_END_ALLOW_THREADS; return NULL.
ConsumeReturnNull ==
    /\ ~crashed
    /\ hpc = "c_return" /\ gil = "none"
    /\ gil' = "host"
    /\ hpc' = "failed"
    /\ UNCHANGED <<after, self, refs, attached, completed, reply, notify, cb,
                   crashed, err, hIncref, hDecref, handlerArgs, warnings,
                   unrefCalls, cancelCalls, created, replyArrived,
                   cancelledFirst, blockReturned, lastCompleted, ret>>
    /\ UNCHANGED cvars

\* Lines 149-150: self->pc = pc; return self.
ConsumeAssign ==
    /\ ~crashed
    /\ hpc = "c_assign"
    /\ self' = [self EXCEPT !.pcf = "h1"]
    /\ created' = TRUE
    /\ hpc' = "idle"
    /\ UNCHANGED <<gil, after, refs, attached, completed, reply, notify, cb,
                   crashed, err, hIncref, hDecref, handlerArgs, warnings,
                   unrefCalls, cancelCalls, replyArrived, cancelledFirst,
                   blockReturned, lastCompleted, ret>>
    /\ UNCHANGED cvars

(***************************************************************************)
(* PendingCall_tp_dealloc, lines 153-162.                                  *)
(***************************************************************************)

\* The host drops its last reference to a PendingCall it was given.
HostDestroy ==
    /\ ~crashed
    /\ hpc = "idle" /\ gil = "host"
    /\ self.state = "alive"
    /\ hpc' = "d_check"
    /\ after' = "gone"
    /\ UNCHANGED <<gil, self, refs, attached, completed, reply, notify, cb,
                   crashed, err, hIncref, hDecref, handlerArgs, warnings,
                   unrefCalls, cancelCalls, created, replyArrived,
                   cancelledFirst, blockReturned, lastCompleted, ret>>
    /\ UNCHANGED cvars

\* Lines 156-157: if (self->pc), Py_BEGIN_ALLOW_THREADS.
DeallocCheck ==
    /\ ~crashed
    /\ hpc = "d_check"
    /\ IF self.pcf # "NULL"
       THEN gil' = "none" /\ hpc' = "d_unref"
       ELSE UNCHANGED gil /\ hpc' = "d_del"
    /\ UNCHANGED <<after, self, refs, attached, completed, reply, notify, cb,
                   crashed, err, hIncref, hDecref, handlerArgs, warnings,
                   unrefCalls, cancelCalls, created, replyArrived,
                   cancelledFirst, blockReturned, lastCompleted, ret>>
    /\ UNCHANGED cvars

\* Line 158: dbus_pending_call_unref(self->pc).
DeallocUnref ==
    /\ ~crashed
    /\ hpc = "d_unref"
    /\ LibUnref("host", self.pcf)
    /\ unrefCalls' = [unrefCalls EXCEPT ![self.pcf] = @ + 1]
    /\ hpc' = "d_endallow"
    /\ UNCHANGED <<gil, after, self, attached, completed, reply, cb, err,
                   hIncref, handlerArgs, warnings, cancelCalls, created,
                   replyArrived, cancelledFirst, blockReturned,
                   lastCompleted, ret>>
    /\ UNCHANGED cvars

\* Line 159: Py_END_ALLOW_THREADS.
DeallocEndAllow ==
    /\ ~crashed
    /\ hpc = "d_endallow" /\ gil = "none"
    /\ gil' = "host"
    /\ hpc' = "d_del"
    /\ UNCHANGED <<after, self, refs, attached, completed, reply, notify, cb,
                   crashed, err, hIncref, hDecref, handlerArgs, warnings,
                   unrefCalls, cancelCalls, created, replyArrived,
                   cancelledFirst, blockReturned, lastCompleted, ret>>
    /\ UNCHANGED cvars

\* Line 161: PyObject_Del(self); control goes back to whoever dropped the
\* reference.
DeallocDel ==
    /\ ~crashed
    /\ hpc = "d_del"
    /\ self' = [self EXCEPT !.state = "dead"]
    /\ hpc' = after
    /\ after' = "none"
    /\ UNCHANGED <<gil, refs, attached, completed, reply, notify, cb,
                   crashed, err, hIncref, hDecref, handlerArgs, warnings,
                   unrefCalls, cancelCalls, created, replyArrived,
                   cancelledFirst, blockReturned, lastCompleted, ret>>
    /\ UNCHANGED cvars

(***************************************************************************)
(* The methods of a PendingCall: cancel (47-54), _block (64-71) and        *)
(* get_completed (105-114).  Each releases the interpreter lock around its *)
(* one libdbus call.                                                       *)
(***************************************************************************)

\* Line 50: Py_BEGIN_ALLOW_THREADS in cancel().
CancelBegin ==
    /\ ~crashed
    /\ hpc = "idle" /\ gil = "host" /\ self.state = "alive"
    /\ gil' = "none"
    /\ hpc' = "cancel_call"
    /\ UNCHANGED <<after, self, refs, attached, completed, reply, notify, cb,
                   crashed, err, hIncref, hDecref, handlerArgs, warnings,
                   unrefCalls, cancelCalls, created, replyArrived,
                   cancelledFirst, blockReturned, lastCompleted, ret>>
    /\ UNCHANGED cvars

\* A mutant of CancelCall that does not reach libdbus.
CancelCall_Skip ==
    /\ ~crashed
    /\ hpc = "cancel_call"
    /\ cancelledFirst' = (cancelledFirst \/ replyArrived = "no")
    /\ hpc' = "cancel_end"
    /\ UNCHANGED <<gil, after, self, refs, attached, completed, reply, notify,
                   cb, crashed, err, hIncref, hDecref, handlerArgs, warnings,
                   unrefCalls, cancelCalls, created, replyArrived,
                   blockReturned, lastCompleted, ret>>
    /\ UNCHANGED cvars

\* Line 51: dbus_pending_call_cancel(self->pc).  This is the moment the
\* cancellation takes effect; cancelledFirst records that no reply had
\* arrived by then.
CancelCall ==
    /\ ~crashed
    /\ hpc = "cancel_call"
    /\ LibCancel("host", self.pcf)
    /\ cancelledFirst' = (cancelledFirst \/ replyArrived = "no")
    /\ hpc' = "cancel_end"
    /\ UNCHANGED <<gil, after, self, completed, reply, cb, err, hIncref,
                   handlerArgs, warnings, unrefCalls, cancelCalls, created,
                   replyArrived, blockReturned, lastCompleted, ret>>
    /\ UNCHANGED cvars

\* Lines 52-53: Py_END_ALLOW_THREADS; Py_RETURN_NONE.
CancelEnd ==
    /\ ~crashed
    /\ hpc = "cancel_end" /\ gil = "none"
    /\ gil' = "host"
    /\ hpc' = "idle"
    /\ UNCHANGED <<after, self, refs, attached, completed, reply, notify, cb,
                   crashed, err, hIncref, hDecref, handlerArgs, warnings,
                   unrefCalls, cancelCalls, created, replyArrived,
                   cancelledFirst, blockReturned, lastCompleted, ret>>
    /\ UNCHANGED cvars

\* A mutant of BlockBegin that enters the wait with the lock still held.
BlockBegin_KeepsGIL ==
    /\ ~crashed
    /\ hpc = "idle" /\ gil = "host" /\ self.state = "alive"
    /\ hpc' = "block_call"
    /\ UNCHANGED <<gil, after, self, refs, attached, completed, reply, notify,
                   cb, crashed, err, hIncref, hDecref, handlerArgs, warnings,
                   unrefCalls, cancelCalls, created, replyArrived,
                   cancelledFirst, blockReturned, lastCompleted, ret>>
    /\ UNCHANGED cvars

\* Line 67: Py_BEGIN_ALLOW_THREADS in _block(); line 68 enters
\* dbus_pending_call_block(self->pc).
BlockBegin ==
    /\ ~crashed
    /\ hpc = "idle" /\ gil = "host" /\ self.state = "alive"
    /\ gil' = "none"
    /\ hpc' = "block_call"
    /\ UNCHANGED <<after, self, refs, attached, completed, reply, notify, cb,
                   crashed, err, hIncref, hDecref, handlerArgs, warnings,
                   unrefCalls, cancelCalls, created, replyArrived,
                   cancelledFirst, blockReturned, lastCompleted, ret>>
    /\ UNCHANGED cvars

\* Inside dbus_pending_call_block: the blocked thread reads the reply itself
\* and completes the call, which runs the notify function in the host
\* thread.
BlockGetsReply ==
    /\ ~crashed
    /\ hpc = "block_call"
    /\ attached /\ ~completed
    /\ LibComplete("host", "m1")
    /\ replyArrived' = IF created THEN "late" ELSE "early"
    /\ UNCHANGED <<gil, hpc, after, self, notify, crashed, err, hIncref,
                   hDecref, handlerArgs, warnings, unrefCalls, cancelCalls,
                   created, cancelledFirst, blockReturned, lastCompleted, ret>>
    /\ UNCHANGED cvars

\* Inside dbus_pending_call_block: the wait runs out of time with no reply,
\* and libdbus completes the call with no reply stored.
BlockTimesOut ==
    /\ ~crashed
    /\ hpc = "block_call"
    /\ ~completed
    /\ LibComplete("host", "none")
    /\ UNCHANGED <<gil, hpc, after, self, notify, crashed, err, hIncref,
                   hDecref, handlerArgs, warnings, unrefCalls, cancelCalls,
                   created, replyArrived, cancelledFirst, blockReturned,
                   lastCompleted, ret>>
    /\ UNCHANGED cvars

\* dbus_pending_call_block returns once the completed flag is set (and, when
\* this thread completed the call, once that completion is over).
BlockReturns ==
    /\ ~crashed
    /\ hpc = "block_call"
    /\ completed /\ cb["host"].pos = "idle"
    /\ hpc' = "block_end"
    /\ UNCHANGED <<gil, after, self, refs, attached, completed, reply, notify,
                   cb, crashed, err, hIncref, hDecref, handlerArgs, warnings,
                   unrefCalls, cancelCalls, created, replyArrived,
                   cancelledFirst, blockReturned, lastCompleted, ret>>
    /\ UNCHANGED cvars

\* Lines 69-70: Py_END_ALLOW_THREADS; Py_RETURN_NONE.
BlockEnd ==
    /\ ~crashed
    /\ hpc = "block_end" /\ gil = "none"
    /\ gil' = "host"
    /\ hpc' = "idle"
    /\ blockReturned' = TRUE
    /\ UNCHANGED <<after, self, refs, attached, completed, reply, notify, cb,
                   crashed, err, hIncref, hDecref, handlerArgs, warnings,
                   unrefCalls, cancelCalls, created, replyArrived,
                   cancelledFirst, lastCompleted, ret>>
    /\ UNCHANGED cvars

\* Line 110: Py_BEGIN_ALLOW_THREADS in get_completed().
GetCompletedBegin ==
    /\ ~crashed
    /\ hpc = "idle" /\ gil = "host" /\ self.state = "alive"
    /\ gil' = "none"
    /\ hpc' = "gc_call"
    /\ UNCHANGED <<after, self, refs, attached, completed, reply, notify, cb,
                   crashed, err, hIncref, hDecref, handlerArgs, warnings,
                   unrefCalls, cancelCalls, created, replyArrived,
                   cancelledFirst, blockReturned, lastCompleted, ret>>
    /\ UNCHANGED cvars

\* Line 111: ret = dbus_pending_call_get_completed(self->pc), which reads the
\* handle's completed flag.
GetCompletedCall ==
    /\ ~crashed
    /\ hpc = "gc_call"
    /\ ret' = completed
    /\ hpc' = "gc_end"
    /\ UNCHANGED <<gil, after, self, refs, attached, completed, reply, notify,
                   cb, crashed, err, hIncref, hDecref, handlerArgs, warnings,
                   unrefCalls, cancelCalls, created, replyArrived,
                   cancelledFirst, blockReturned, lastCompleted>>
    /\ UNCHANGED cvars

\* Lines 112-113: Py_END_ALLOW_THREADS; return PyBool_FromLong(ret).
GetCompletedEnd ==
    /\ ~crashed
    /\ hpc = "gc_end" /\ gil = "none"
    /\ gil' = "host"
    /\ hpc' = "idle"
    /\ lastCompleted' = (lastCompleted \/ ret)
    /\ UNCHANGED <<after, self, refs, attached, completed, reply, notify, cb,
                   crashed, err, hIncref, hDecref, handlerArgs, warnings,
                   unrefCalls, cancelCalls, created, replyArrived,
                   cancelledFirst, blockReturned, ret>>
    /\ UNCHANGED cvars

\* The interpreter switches threads between two bytecodes of the host's
\* Python code: the host thread gives the lock up, and later takes it back.
HostYield ==
    /\ ~crashed
    /\ HostPy /\ gil = "host"
    /\ gil' = "none"
    /\ UNCHANGED <<hpc, after, self, refs, attached, completed, reply, notify,
                   cb, crashed, err, hIncref, hDecref, handlerArgs, warnings,
                   unrefCalls, cancelCalls, created, replyArrived,
                   cancelledFirst, blockReturned, lastCompleted, ret>>
    /\ UNCHANGED cvars

HostResume ==
    /\ ~crashed
    /\ HostPy /\ gil = "none"
    /\ gil' = "host"
    /\ UNCHANGED <<hpc, after, self, refs, attached, completed, reply, notify,
                   cb, crashed, err, hIncref, hDecref, handlerArgs, warnings,
                   unrefCalls, cancelCalls, created, replyArrived,
                   cancelledFirst, blockReturned, lastCompleted, ret>>
    /\ UNCHANGED cvars

Next ==
    \/ \E ok \in BOOLEAN, g \in Pointers : ConsumeNew(ok, g)
    \/ \E r \in BOOLEAN : ConsumeSetNotify(r)
    \/ ConsumeEndAllow
    \/ ConsumeFail
    \/ ConsumeBeginAllow
    \/ ConsumeCancel
    \/ ConsumeUnref
    \/ ConsumeReturnNull
    \/ ConsumeAssign
    \/ HostDestroy
    \/ DeallocCheck
    \/ DeallocUnref
    \/ DeallocEndAllow
    \/ DeallocDel
    \/ CancelBegin
    \/ CancelCall
    \/ CancelEnd
    \/ BlockBegin
    \/ BlockGetsReply
    \/ BlockTimesOut
    \/ BlockReturns
    \/ BlockEnd
    \/ GetCompletedBegin
    \/ GetCompletedCall
    \/ GetCompletedEnd
    \/ HostYield
    \/ HostResume
    \/ LibDispatchReply
    \/ \E c \in Ctx : LibAfterNotify(c)
    \/ \E c \in Ctx : NotifyEnsure(c)
    \/ \E c \in Ctx : NotifySteal(c)
    \/ \E c \in Ctx : NotifyWarn(c)
    \/ \E c \in Ctx, error \in BOOLEAN : NotifyWarnDone(c, error)
    \/ \E c \in Ctx : PyGiveUp(c)
    \/ \E c \in Ctx : PyTakeBack(c)
    \/ \E c \in Ctx, ok \in BOOLEAN : NotifyDecode(c, ok)
    \/ \E c \in Ctx : NotifyCall(c)
    \/ \E c \in Ctx, raises \in BOOLEAN : NotifyCallDone(c, raises)
    \/ \E c \in Ctx : NotifyRelease(c)

Spec == Init /\ [][Next]_vars

(***************************************************************************)
(* Properties of the PendingCall bridge.                                   *)
(***************************************************************************)

HandlerCalls == Len(handlerArgs)

\* The Message decoded from the reply to h1.
TheMessage == [type |-> "Message", of |-> "m1"]

\* No run of the notify function is under way, in either context.
NotificationOver == \A c \in Ctx : cb[c].pos = "idle"

\* Where a run of the notify function reads or writes host-owned values.
TouchingHost == {"steal", "warn", "decode", "call", "release"}

\* C1: when the reply arrives after the PendingCall was created, the handler
\* is called exactly once, with the Message decoded from that reply as its
\* one argument: never twice, never with anything else, and, once the
\* notification is over, not zero times.
C1_HandlerExactlyOnce ==
    /\ HandlerCalls <= 1
    /\ \A i \in 1..HandlerCalls : handlerArgs[i] = <<TheMessage>>
    /\ (replyArrived = "late" /\ NotificationOver) => HandlerCalls = 1

Suspended(c) == cb[c].py = "waiting"

\* C3: wherever the notify function touches a host-owned value, the context
\* it runs in holds the interpreter lock.  The handler and the warnings
\* machinery may give the lock up while they run; the run then touches
\* nothing until it has the lock again.
C3_TouchOnlyUnderGIL ==
    \A c \in Ctx : (cb[c].pos \in TouchingHost /\ ~Suspended(c)) => gil = c

\* The notify function about to call the handler in the dispatching thread
\* while the host thread is inside a method of the same PendingCall.
C3_Witness ==
    cb["lib"].pos = "call" /\ hpc = "gc_call"

\* C4: the notify function releases the lock it took at entry exactly once
\* before it returns, on each of its four paths, and the steps that call
\* the handler, from entering it to its end, leave the PendingCall's pc
\* field and the callable's reference count alone whether the handler
\* returns or raises.
C4_ReleasedOnEveryPath ==
    /\ [](\A c \in Ctx :
            /\ cb[c].pos \in TouchingHost => cb[c].acq = 1 /\ cb[c].rel = 0
            /\ (cb[c].pos = "return" /\ cb[c].acq > 0) =>
                  /\ cb[c].acq = 1 /\ cb[c].rel = 1
                  /\ gil # c
                  /\ cb[c].path \in {"noreply", "decodefail", "returned",
                                     "raised"})
    /\ [][\A c \in Ctx :
            /\ (cb[c].pos = "call" /\ cb'[c] # cb[c]) =>
                  UNCHANGED <<self, hIncref, hDecref>>
            /\ (cb[c].pos = "call" /\ cb'[c].pos # "call") =>
                  /\ cb'[c].pos = "release"
                  /\ UNCHANGED gil]_vars

\* The notify function back in libdbus after a handler that raised.
C4_Witness ==
    \E c \in Ctx : cb[c].pos = "return" /\ cb[c].path = "raised"

\* C5: for a PendingCall that was created, whatever happened to it before
\* (reply, cancel, _block, get_completed, or nothing at all), the bridge
\* unrefs its handle at most once and no other pointer ever, the callable's
\* one reference is dropped at most once, and once the object has been
\* destroyed both have been released exactly once, whether or not the
\* notification has fired.
C5_ReleasedExactlyOnce ==
    created =>
        /\ hIncref = 1 /\ hDecref <= 1
        /\ unrefCalls["h1"] <= 1
        /\ \A p \in Pointers \ {"h1"} : unrefCalls[p] = 0
        /\ self.state = "dead" => (unrefCalls["h1"] = 1 /\ hDecref = 1)

\* C6: when set_notify fails, ConsumeDBusPendingCall returns no PendingCall
\* with MemoryError set, having cancelled h1 once, unref'd h1 exactly once
\* and no other pointer, dropped the callable's reference exactly once, and
\* left nothing registered.
C6_UnwindReleasesOnlyItsHandle ==
    (self.state # "none" /\ ~created /\ ~ret
                         /\ hpc \notin {"start", "c_setnotify"}) =>
        /\ ~crashed
        /\ \A p \in Pointers \ {"h1"} : unrefCalls[p] = 0
        /\ unrefCalls["h1"] <= 1
        /\ hpc = "failed" =>
              /\ err = "MemoryError"
              /\ cancelCalls = 1
              /\ unrefCalls["h1"] = 1
              /\ hIncref = 1 /\ hDecref = 1
              /\ ~notify
              /\ self.state = "dead"

\* C7: _block() has returned for a handle that received a reply only if the
\* handler has been invoked.  Stated for the case most favourable to the
\* claim: the reply arrived after the PendingCall was created, and no run of
\* the notify function is still under way.
C7_BlockReturnsAfterHandler ==
    (blockReturned /\ replyArrived = "late" /\ NotificationOver) =>
        HandlerCalls >= 1

\* C8: get_completed() has returned True only if the handler has been
\* invoked.  Stated for the case most favourable to the claim: the call
\* completed with a reply that arrived after the PendingCall was created,
\* and no run of the notify function is still under way.
C8_CompletedAfterHandler ==
    (lastCompleted /\ replyArrived = "late" /\ NotificationOver) =>
        HandlerCalls >= 1

(***************************************************************************)
(* PART 2.  Array, Dictionary and Struct (containers-impl.h)               *)
(***************************************************************************)

Omitted(x) == x.t = "omitted"

\* A mutant of KwVariantLevel that also finds a variant_level passed by
\* position.
KwVariantLevel_AnyPosition(call) == call.vl

\* PyDict_GetItem(kwargs, variant_level_const): the variant_level passed by
\* keyword, if any.
KwVariantLevel(call) ==
    IF call.n < 3 THEN call.vl ELSE [t |-> "omitted", v |-> 0]

\* PyInt_AsLong: the value of a Python int; an error for a value that is no
\* number.
PyInt_AsLong(x) == [ok |-> x.t = "int", v |-> x.v]

\* PyArg_ParseTupleAndKeywords with the three optional objects of tp_init:
\* fails when given more arguments than that.
PyArg_ParseTupleAndKeywords(call) == call.n <= 3

\* Signature(x): the Signature of a str that is a valid signature, or an
\* error.
Signature_tp_new(x) ==
    IF x.t = "str" /\ x.text \in ValidTexts
    THEN [ok |-> TRUE, val |-> [t |-> "Signature", text |-> x.text],
          exc |-> "none"]
    ELSE [ok |-> FALSE, val |-> PyNone,
          exc |-> IF x.t = "str" THEN "ValueError" ELSE "TypeError"]

\* list.__init__(this, iterable): empties the list, then extends it.
List_tp_init(elems, it) ==
    IF it.t = "noniter"
    THEN [ok |-> FALSE, elems |-> <<>>, exc |-> "TypeError"]
    ELSE [ok |-> TRUE, elems |-> it.items, exc |-> "none"]

\* dict.__init__(this, mapping): updates the dict with the mapping's items.
Dict_base_init(elems, it) ==
    IF it.t = "noniter"
    THEN [ok |-> FALSE, elems |-> elems, exc |-> "TypeError"]
    ELSE [ok |-> TRUE,
          elems |-> [k \in 1..(IF Len(it.items) > Len(elems)
                               THEN Len(it.items) ELSE Len(elems)) |->
                        IF k <= Len(it.items) THEN it.items[k] ELSE elems[k]],
          exc |-> "none"]

\* Glue_immutable_setattro, the tp_setattro of Struct (line 526): refuses
\* every assignment.
Glue_immutable_setattro(this, name) ==
    [ok |-> FALSE, exc |-> "AttributeError", self |-> this]

\* A mutant of ConvertSignature that keeps whatever it was given.
ConvertSignature_Raw(signature) ==
    [ok |-> TRUE,
     val |-> IF Omitted(signature) THEN PyNone ELSE signature,
     exc |-> "none"]

\* Lines 141-152 (the same text is at lines 328-339 and 482-496): turn the
\* signature argument into an owned reference to None or to a Signature.
ConvertSignature(signature) ==
    LET s == IF Omitted(signature) THEN PyNone ELSE signature
    IN  IF s = PyNone \/ s.t = "Signature"
        THEN [ok |-> TRUE, val |-> s, exc |-> "none"]
        ELSE Signature_tp_new(s)

\* Array_tp_new, lines 100-123.
Array_tp_new(call) ==
    LET fresh == [state |-> "live", kind |-> "Array", elems |-> <<>>,
                  signature |-> PyNone, variant_level |-> 0]
        vl == KwVariantLevel(call)
    IN  IF Omitted(vl)
        THEN [ok |-> TRUE, exc |-> "none", self |-> fresh,
              held |-> <<PyNone>>]
        ELSE IF PyInt_AsLong(vl).ok
             THEN [ok |-> TRUE, exc |-> "none",
                   self |-> [fresh EXCEPT
                                !.variant_level = PyInt_AsLong(vl).v],
                   held |-> <<PyNone>>]
             ELSE [ok |-> FALSE, exc |-> "TypeError", self |-> NoObject,
                   held |-> <<>>]

\* A mutant of Array_tp_init that stores the variant_level it was given.
Array_tp_init_SetsVL(this, call) ==
    LET fail(e, s, acq, rel) ==
            [ok |-> FALSE, exc |-> e, self |-> s,
             acquired |-> acq, released |-> rel, dropped |-> <<>>]
        sg == ConvertSignature(call.sig)
        b == List_tp_init(this.elems, call.it)
    IN  IF ~PyArg_ParseTupleAndKeywords(call)
        THEN fail("TypeError", this, {}, {})
        ELSE IF ~sg.ok THEN fail(sg.exc, this, {}, {})
        ELSE IF ~call.mem
        THEN fail("MemoryError", this, {"signature"}, {"signature"})
        ELSE IF ~b.ok
        THEN fail(b.exc, [this EXCEPT !.elems = b.elems],
                  {"signature", "tuple"}, {"tuple", "signature"})
        ELSE [ok |-> TRUE, exc |-> "none",
              self |-> [this EXCEPT !.elems = b.elems,
                            !.signature = sg.val,
                            !.variant_level =
                                IF call.vl.t = "int" THEN call.vl.v ELSE @],
              acquired |-> {"signature", "tuple"}, released |-> {"tuple"},
              dropped |-> <<this.signature>>]

\* A mutant of Array_tp_init that leaves the signature it found.
Array_tp_init_KeepsSignature(this, call) ==
    LET fail(e, s, acq, rel) ==
            [ok |-> FALSE, exc |-> e, self |-> s,
             acquired |-> acq, released |-> rel, dropped |-> <<>>]
        sg == ConvertSignature(call.sig)
        b == List_tp_init(this.elems, call.it)
    IN  IF ~PyArg_ParseTupleAndKeywords(call)
        THEN fail("TypeError", this, {}, {})
        ELSE IF ~sg.ok THEN fail(sg.exc, this, {}, {})
        ELSE IF ~call.mem
        THEN fail("MemoryError", this, {"signature"}, {"signature"})
        ELSE IF ~b.ok
        THEN fail(b.exc, [this EXCEPT !.elems = b.elems],
                  {"signature", "tuple"}, {"tuple", "signature"})
        ELSE [ok |-> TRUE, exc |-> "none",
              self |-> [this EXCEPT !.elems = b.elems],
              acquired |-> {"signature", "tuple"}, released |-> {"tuple"},
              dropped |-> <<this.signature>>]

\* A mutant of Array_tp_init that runs list.__init__ before it converts the
\* signature.
Array_tp_init_InitsBaseFirst(this, call) ==
    LET fail(e, s, acq, rel) ==
            [ok |-> FALSE, exc |-> e, self |-> s,
             acquired |-> acq, released |-> rel, dropped |-> <<>>]
        sg == ConvertSignature(call.sig)
        b == List_tp_init(this.elems, call.it)
    IN  IF ~PyArg_ParseTupleAndKeywords(call)
        THEN fail("TypeError", this, {}, {})
        ELSE IF ~call.mem
        THEN fail("MemoryError", this, {}, {})
        ELSE IF ~b.ok
        THEN fail(b.exc, [this EXCEPT !.elems = b.elems],
                  {"tuple"}, {"tuple"})
        ELSE IF ~sg.ok
        THEN fail(sg.exc, [this EXCEPT !.elems = b.elems],
                  {"tuple"}, {"tuple"})
        ELSE [ok |-> TRUE, exc |-> "none",
              self |-> [this EXCEPT !.elems = b.elems,
                            !.signature = sg.val],
              acquired |-> {"signature", "tuple"}, released |-> {"tuple"},
              dropped |-> <<this.signature>>]

\* Array_tp_init, lines 125-169.  acquired names the references the call
\* took (the converted signature, the temporary tuple), released those it
\* gave back; mem says whether there is memory for the tuple.
Array_tp_init(this, call) ==
    LET fail(e, s, acq, rel) ==
            [ok |-> FALSE, exc |-> e, self |-> s,
             acquired |-> acq, released |-> rel, dropped |-> <<>>]
        sg == ConvertSignature(call.sig)
        b == List_tp_init(this.elems, call.it)
    IN  IF ~PyArg_ParseTupleAndKeywords(call)
        THEN fail("TypeError", this, {}, {})
        ELSE IF ~sg.ok THEN fail(sg.exc, this, {}, {})
        ELSE IF ~call.mem
        THEN fail("MemoryError", this, {"signature"}, {"signature"})
        ELSE IF ~b.ok
        THEN fail(b.exc, [this EXCEPT !.elems = b.elems],
                  {"signature", "tuple"}, {"tuple", "signature"})
        ELSE [ok |-> TRUE, exc |-> "none",
              self |-> [this EXCEPT !.elems = b.elems,
                            !.signature = sg.val],
              acquired |-> {"signature", "tuple"}, released |-> {"tuple"},
              dropped |-> <<this.signature>>]

\* Dict_tp_new, lines 288-311.
Dict_tp_new(call) ==
    LET fresh == [state |-> "live", kind |-> "Dict", elems |-> <<>>,
                  signature |-> PyNone, variant_level |-> 0]
        vl == KwVariantLevel(call)
    IN  IF Omitted(vl)
        THEN [ok |-> TRUE, exc |-> "none", self |-> fresh,
              held |-> <<PyNone>>]
        ELSE IF PyInt_AsLong(vl).ok
             THEN [ok |-> TRUE, exc |-> "none",
                   self |-> [fresh EXCEPT
                                !.variant_level = PyInt_AsLong(vl).v],
                   held |-> <<PyNone>>]
             ELSE [ok |-> FALSE, exc |-> "TypeError", self |-> NoObject,
                   held |-> <<>>]

\* A mutant of Dict_tp_init that goes on with None when the signature cannot
\* be converted.
Dict_tp_init_IgnoresSignatureError(this, call) ==
    LET fail(e, s, acq, rel) ==
            [ok |-> FALSE, exc |-> e, self |-> s,
             acquired |-> acq, released |-> rel, dropped |-> <<>>]
        sg == ConvertSignature(call.sig)
        b == Dict_base_init(this.elems, call.it)
    IN  IF ~PyArg_ParseTupleAndKeywords(call)
        THEN fail("TypeError", this, {}, {})
        ELSE IF ~call.mem
        THEN fail("MemoryError", this, {"signature"}, {"signature"})
        ELSE IF ~b.ok
        THEN fail(b.exc, [this EXCEPT !.elems = b.elems],
                  {"signature", "tuple"}, {"tuple", "signature"})
        ELSE [ok |-> TRUE, exc |-> "none",
              self |-> [this EXCEPT !.elems = b.elems,
                            !.signature = sg.val],
              acquired |-> {"signature", "tuple"}, released |-> {"tuple"},
              dropped |-> <<this.signature>>]

\* A mutant of Dict_tp_init that keeps its reference to the signature when
\* dict.__init__ fails.
Dict_tp_init_LeaksSignature(this, call) ==
    LET fail(e, s, acq, rel) ==
            [ok |-> FALSE, exc |-> e, self |-> s,
             acquired |-> acq, released |-> rel, dropped |-> <<>>]
        sg == ConvertSignature(call.sig)
        b == Dict_base_init(this.elems, call.it)
    IN  IF ~PyArg_ParseTupleAndKeywords(call)
        THEN fail("TypeError", this, {}, {})
        ELSE IF ~sg.ok THEN fail(sg.exc, this, {}, {})
        ELSE IF ~call.mem
        THEN fail("MemoryError", this, {"signature"}, {"signature"})
        ELSE IF ~b.ok
        THEN fail(b.exc, [this EXCEPT !.elems = b.elems],
                  {"signature", "tuple"}, {"tuple"})
        ELSE [ok |-> TRUE, exc |-> "none",
              self |-> [this EXCEPT !.elems = b.elems,
                            !.signature = sg.val],
              acquired |-> {"signature", "tuple"}, released |-> {"tuple"},
              dropped |-> <<this.signature>>]

\* Dict_tp_init, lines 313-357.
Dict_tp_init(this, call) ==
    LET fail(e, s, acq, rel) ==
            [ok |-> FALSE, exc |-> e, self |-> s,
             acquired |-> acq, released |-> rel, dropped |-> <<>>]
        sg == ConvertSignature(call.sig)
        b == Dict_base_init(this.elems, call.it)
    IN  IF ~PyArg_ParseTupleAndKeywords(call)
        THEN fail("TypeError", this, {}, {})
        ELSE IF ~sg.ok THEN fail(sg.exc, this, {}, {})
        ELSE IF ~call.mem
        THEN fail("MemoryError", this, {"signature"}, {"signature"})
        ELSE IF ~b.ok
        THEN fail(b.exc, [this EXCEPT !.elems = b.elems],
                  {"signature", "tuple"}, {"tuple", "signature"})
        ELSE [ok |-> TRUE, exc |-> "none",
              self |-> [this EXCEPT !.elems = b.elems,
                            !.signature = sg.val],
              acquired |-> {"signature", "tuple"}, released |-> {"tuple"},
              dropped |-> <<this.signature>>]

\* Struct_tp_new, lines 453-505.
Struct_tp_new(call) ==
    LET fail(e) == [ok |-> FALSE, exc |-> e, self |-> NoObject,
                    held |-> <<>>]
        sg == ConvertSignature(call.sig)
    IN  IF call.n # 1 THEN fail("TypeError")
        ELSE IF call.vl.t \notin {"omitted", "int"} THEN fail("TypeError")
        ELSE IF call.it.t = "noniter" THEN fail("TypeError")
        ELSE IF ~sg.ok THEN fail(sg.exc)
        ELSE [ok |-> TRUE, exc |-> "none",
              self |-> [state |-> "live", kind |-> "Struct",
                        elems |-> call.it.items,
                        signature |-> sg.val,
                        variant_level |-> IF Omitted(call.vl) THEN 0
                                          ELSE call.vl.v],
              held |-> <<sg.val>>]

\* StructType has no tp_init of its own (line 544): the one it inherits
\* does nothing to the instance.
Struct_tp_init(this, call) ==
    [ok |-> TRUE, exc |-> "none", self |-> this,
     acquired |-> {}, released |-> {}, dropped |-> <<>>]

\* The signature and variant_level members of Array (lines 51-60) and of
\* Dictionary (lines 239-248) are READONLY: assigning to one fails.
Member_set(this, name) ==
    [ok |-> FALSE, exc |-> "TypeError", self |-> this]

\* A mutant of Array_tp_dealloc that leaves the signature alone.
Array_tp_dealloc_KeepsSignature(this) == [dropped |-> <<>>]

\* Array_tp_dealloc, lines 62-68: Py_XDECREF(self->signature).
Array_tp_dealloc(this) == [dropped |-> <<this.signature>>]

\* Dict_tp_dealloc, lines 250-256.
Dict_tp_dealloc(this) == [dropped |-> <<this.signature>>]

\* StructType has no tp_dealloc of its own (line 513): the one it inherits
\* from tuple releases the items and the object, and not the attribute
\* dictionary at tp_dictoffset (line 543), so the reference that dictionary
\* holds to the signature is never dropped.
Struct_tp_dealloc(this) == [dropped |-> <<>>]

tp_dealloc(this) ==
    CASE this.kind = "Array" -> Array_tp_dealloc(this)
      [] this.kind = "Dict" -> Dict_tp_dealloc(this)
      [] this.kind = "Struct" -> Struct_tp_dealloc(this)

\* The counts after tp_new: the new instance owns what tp_new left in it.
AfterNew(made) == IncrefEach(NoRefs, made.held)

\* The counts after tp_init: the reference to the signature that the call
\* took and kept is the one now stored in the instance, and the references
\* it dropped are gone.
AfterInit(counts, done) ==
    DecrefEach(IF done.ok /\ "signature" \in done.acquired \ done.released
               THEN Incref(counts, done.self.signature) ELSE counts,
               done.dropped)

\* The counts after the instance is released.
AfterDealloc(counts, this) == DecrefEach(counts, tp_dealloc(this).dropped)

tp_new(kind, call) ==
    CASE kind = "Array" -> Array_tp_new(call)
      [] kind = "Dict" -> Dict_tp_new(call)
      [] kind = "Struct" -> Struct_tp_new(call)

tp_init(this, call) ==
    CASE this.kind = "Array" -> Array_tp_init(this, call)
      [] this.kind = "Dict" -> Dict_tp_init(this, call)
      [] this.kind = "Struct" -> Struct_tp_init(this, call)

\* PyObject_GenericSetAttr on a type without instance dictionary, for a name
\* that is no member: there is no such attribute.
GenericSetAttr_NoSuchName(this, name) ==
    [ok |-> FALSE, exc |-> "AttributeError", self |-> this]

\* A mutant of tp_setattro whose Struct lets an assignment through.
tp_setattro_Generic(this, name) ==
    IF this.kind = "Struct"
    THEN [ok |-> TRUE, exc |-> "none",
          self |-> IF name = "variant_level"
                   THEN [this EXCEPT !.variant_level = @ + 1]
                   ELSE this]
    ELSE Member_set(this, name)

\* The tp_setattro slot: Glue_immutable_setattro for Struct (line 526), the
\* inherited generic one for Array (line 190) and Dictionary.
tp_setattro(this, name) ==
    IF this.kind = "Struct" THEN Glue_immutable_setattro(this, name)
    ELSE IF name \in {"signature", "variant_level"}
         THEN Member_set(this, name)
         ELSE GenericSetAttr_NoSuchName(this, name)

\* The caller calls the type: tp_new, then tp_init with the same arguments;
\* when tp_init fails the new instance is released and the caller gets none.
TypeCall(kind, call) ==
    /\ obj.state = "none" /\ lcall.op = "none"
    /\ LET made == tp_new(kind, call)
           done == tp_init(made.self, call)
       IN  IF ~made.ok
           THEN /\ obj' = NoObject /\ cres' = made.exc /\ owned' = {}
                /\ sigrefs' = AfterNew(made)
           ELSE /\ owned' = done.acquired \ done.released
                /\ IF ~done.ok
                   THEN /\ obj' = NoObject /\ cres' = done.exc
                        /\ sigrefs' = AfterDealloc(
                               AfterInit(AfterNew(made), done), done.self)
                   ELSE /\ obj' = done.self /\ cres' = "ok"
                        /\ sigrefs' = AfterInit(AfterNew(made), done)
    /\ lcall' = Args(kind, call, "call")
    /\ out' = NoRepr
    /\ UNCHANGED bvars

\* The caller calls only __new__ of the type.
NewOnly(kind, call) ==
    /\ obj.state = "none" /\ lcall.op = "none"
    /\ LET made == tp_new(kind, call)
       IN  /\ IF ~made.ok
              THEN obj' = NoObject /\ cres' = made.exc
              ELSE obj' = made.self /\ cres' = "ok"
           /\ sigrefs' = AfterNew(made)
    /\ lcall' = Args(kind, call, "new")
    /\ out' = NoRepr
    /\ owned' = {}
    /\ UNCHANGED bvars

\* The caller calls __init__ on the instance it holds.
Reinit(call) ==
    /\ obj.state = "live"
    /\ LET done == tp_init(obj, call)
       IN  /\ obj' = done.self /\ cres' = IF done.ok THEN "ok" ELSE done.exc
           /\ owned' = done.acquired \ done.released
           /\ sigrefs' = AfterInit(sigrefs, done)
    /\ lcall' = Args(obj.kind, call, "init")
    /\ out' = NoRepr
    /\ UNCHANGED bvars

\* The caller assigns to an attribute of the instance.
SetAttr(name, v) ==
    /\ obj.state = "live"
    /\ LET done == tp_setattro(obj, name)
       IN  obj' = done.self /\ cres' = IF done.ok THEN "ok" ELSE done.exc
    /\ lcall' = [NoCall EXCEPT !.op = "setattr", !.vl = v]
    /\ out' = NoRepr
    /\ owned' = {}
    /\ UNCHANGED sigrefs
    /\ UNCHANGED bvars

\* The caller appends to an Array, or stores under the next key of a
\* Dictionary.
AddItem(x) ==
    /\ obj.state = "live" /\ obj.kind \in {"Array", "Dict"}
    /\ Len(obj.elems) < MaxLen
    /\ obj' = [obj EXCEPT !.elems = Append(@, x)]
    /\ cres' = "ok"
    /\ lcall' = [NoCall EXCEPT !.op = "additem"]
    /\ out' = NoRepr
    /\ owned' = {}
    /\ UNCHANGED sigrefs
    /\ UNCHANGED bvars

\* The caller stores an item of an Array or under a key of a Dictionary.
SetItem(i, x) ==
    /\ obj.state = "live" /\ obj.kind \in {"Array", "Dict"}
    /\ i \in 1..Len(obj.elems)
    /\ obj' = [obj EXCEPT !.elems[i] = x]
    /\ cres' = "ok"
    /\ lcall' = [NoCall EXCEPT !.op = "setitem"]
    /\ out' = NoRepr
    /\ owned' = {}
    /\ UNCHANGED sigrefs
    /\ UNCHANGED bvars

\* The caller drops the instance, or the error a failed call left it with.
\* What is remembered of the step is the type of the instance destroyed.
Drop ==
    /\ obj.state = "live" \/ lcall.op # "none"
    /\ obj' = NoObject
    /\ cres' = "none"
    /\ lcall' = [NoCall EXCEPT !.kind = IF obj.state = "live" THEN obj.kind
                                        ELSE @]
    /\ out' = NoRepr
    /\ owned' = {}
    /\ sigrefs' = IF obj.state = "live" THEN AfterDealloc(sigrefs, obj)
                  ELSE sigrefs
    /\ UNCHANGED bvars

\* The steps of a tp_repr that can fail, named after the local each one
\* sets; "none" stands for a call in which none fails.  Array_tp_repr and
\* Dict_tp_repr read the members of the instance directly; Struct_tp_repr
\* gets them with PyObject_GetAttr into sig and vl_obj.  The last step of
\* all three is PyString_FromFormat, which sets my_repr.
ReprSteps == {"none", "parent_repr", "sig", "sig_repr", "vl_obj", "my_repr"}
StepsOf(kind) ==
    IF kind = "Struct" THEN ReprSteps
    ELSE {"none", "parent_repr", "sig_repr", "my_repr"}

\* Array_tp_repr, lines 70-98; at is the step that fails.  Both display
\* forms are made before either is tested, and both are dropped at finally.
Array_tp_repr(this, at) ==
    LET made == {"parent_repr", "sig_repr"} \ {at}
    IN  IF at # "none"
        THEN [ok |-> FALSE, exc |-> "MemoryError", text |-> NoRepr,
              acquired |-> made, released |-> made]
        ELSE [ok |-> TRUE, exc |-> "none",
              text |-> [name |-> "dbus.Array", base |-> this.elems,
                        signature |-> this.signature,
                        clause |-> IF this.variant_level > 0
                                   THEN <<this.variant_level>> ELSE <<>>],
              acquired |-> made, released |-> made]

\* Dict_tp_repr, lines 258-286.
Dict_tp_repr(this, at) ==
    LET made == {"parent_repr", "sig_repr"} \ {at}
    IN  IF at # "none"
        THEN [ok |-> FALSE, exc |-> "MemoryError", text |-> NoRepr,
              acquired |-> made, released |-> made]
        ELSE [ok |-> TRUE, exc |-> "none",
              text |-> [name |-> "dbus.Dictionary", base |-> this.elems,
                        signature |-> this.signature,
                        clause |-> IF this.variant_level > 0
                                   THEN <<this.variant_level>> ELSE <<>>],
              acquired |-> made, released |-> made]

\* Struct_tp_repr, lines 415-451.  The function stops at the first step that
\* fails (lines 424-430), or returns the NULL of PyString_FromFormat (lines
\* 433-444); finally drops parent_repr and sig_repr (lines 448-449) and
\* nothing else.
Struct_tp_repr(this, at) ==
    LET made == CASE at = "parent_repr" -> {}
                  [] at = "sig" -> {"parent_repr"}
                  [] at = "sig_repr" -> {"parent_repr", "sig"}
                  [] at = "vl_obj" -> {"parent_repr", "sig", "sig_repr"}
                  [] at \in {"my_repr", "none"} ->
                        {"parent_repr", "sig", "sig_repr", "vl_obj"}
        dropped == made \cap {"parent_repr", "sig_repr"}
    IN  IF at # "none"
        THEN [ok |-> FALSE, exc |-> "MemoryError", text |-> NoRepr,
              acquired |-> made, released |-> dropped]
        ELSE [ok |-> TRUE, exc |-> "none",
              text |-> [name |-> "dbus.Struct", base |-> this.elems,
                        signature |-> this.signature,
                        clause |-> IF this.variant_level > 0
                                   THEN <<this.variant_level>> ELSE <<>>],
              acquired |-> made, released |-> dropped]

tp_repr(this, at) ==
    CASE this.kind = "Array" -> Array_tp_repr(this, at)
      [] this.kind = "Dict" -> Dict_tp_repr(this, at)
      [] this.kind = "Struct" -> Struct_tp_repr(this, at)

\* The caller asks for the display form of the instance.
Repr(at) ==
    /\ obj.state = "live"
    /\ at \in StepsOf(obj.kind)
    /\ LET done == tp_repr(obj, at)
       IN  /\ out' = done.text /\ cres' = IF done.ok THEN "ok" ELSE done.exc
           /\ owned' = done.acquired \ done.released
    /\ lcall' = [NoCall EXCEPT !.op = "repr", !.kind = obj.kind]
    /\ UNCHANGED <<obj, sigrefs>>
    /\ UNCHANGED bvars

ContainerNext ==
    \/ \E at \in ReprSteps : Repr(at)
    \/ \E kind \in Kinds, call \in Calls : TypeCall(kind, call)
    \/ \E kind \in Kinds, call \in Calls : NewOnly(kind, call)
    \/ \E call \in Calls : Reinit(call)
    \/ \E name \in {"signature", "variant_level", "other"},
          v \in {x \in VLArgs : x.t = "int"} : SetAttr(name, v)
    \/ \E x \in Items : AddItem(x)
    \/ \E i \in 1..MaxLen, x \in Items : SetItem(i, x)
    \/ Drop

ContainerSpec == Init /\ [][ContainerNext]_vars

(***************************************************************************)
(* Properties of the containers.                                           *)
(***************************************************************************)

\* C9: the variant_level of an Array, Dictionary or Struct is 0 when the
\* call that made it passed none, and nothing done to the instance
\* afterwards changes it: not __init__ called again with another
\* variant_level, by keyword or by position, not a change of its elements,
\* not an attribute assignment, not a failed initialization.
C9_VariantLevelFixed ==
    [][/\ (obj.state = "none" /\ obj'.state = "live" /\ Omitted(lcall'.vl))
           => obj'.variant_level = 0
       /\ (obj.state = "live" /\ obj'.state = "live")
           => obj'.variant_level = obj.variant_level]_vars

\* An instance after __init__ was called again, successfully, with a
\* variant_level other than its own.
C9_Witness ==
    /\ obj.state = "live" /\ obj.kind = "Dict"
    /\ lcall.op = "init" /\ cres = "ok"
    /\ lcall.vl.t = "int" /\ lcall.vl.v # obj.variant_level
    /\ obj.variant_level = 1

\* C10: the signature of an instance the caller can reach is None or a
\* Signature, never the value the caller passed.
C10_SignatureNormalized ==
    obj.state = "live" =>
        \/ obj.signature = PyNone
        \/ obj.signature.t = "Signature" /\ obj.signature.text \in ValidTexts

\* An instance whose signature was passed as a plain str and is now the
\* Signature of that text.
C10_Witness ==
    /\ obj.state = "live" /\ cres = "ok"
    /\ lcall.sig.t = "str"
    /\ obj.signature = [t |-> "Signature", text |-> lcall.sig.text]

\* C11: every container a constructor hands to the caller has a
\* variant_level that is not negative.
C11_VariantLevelNonNegative ==
    obj.state = "live" => obj.variant_level >= 0

\* The last call constructed: the type was called, or Struct's __new__.
Constructing ==
    \/ lcall.op = "call"
    \/ lcall.op = "new" /\ lcall.kind = "Struct"

\* A signature argument that Signature refuses.
Rejected(sig) ==
    /\ sig.t \notin {"omitted", "None", "Signature"}
    /\ ~Signature_tp_new(sig).ok

\* The last call would have constructed had its signature been None.
OnlySignatureWrong ==
    LET c0 == [n |-> lcall.n, it |-> lcall.it, sig |-> PyNone,
               vl |-> lcall.vl, mem |-> TRUE]
        made == tp_new(lcall.kind, c0)
    IN  made.ok /\ tp_init(made.self, c0).ok

\* C12: constructing an Array, Dictionary or Struct with a signature that
\* Signature refuses fails and hands the caller no container; when nothing
\* else is wrong with the call, the error is the one Signature raised.
C12_InvalidSignatureFails ==
    (Constructing /\ Rejected(lcall.sig)) =>
        /\ obj.state = "none"
        /\ cres # "ok"
        /\ OnlySignatureWrong => cres = Signature_tp_new(lcall.sig).exc

\* A Dictionary was called with a text that is no signature: the caller has
\* the error and no instance.
C12_Witness ==
    /\ lcall.op = "call" /\ lcall.kind = "Dict"
    /\ lcall.sig = [t |-> "str", text |-> "!"]
    /\ OnlySignatureWrong
    /\ obj.state = "none" /\ cres = "ValueError"

\* C13: every assignment to an attribute of a constructed Struct fails with
\* the immutability error, and the Struct's elements, signature and
\* variant_level stay what construction made them.
C13_StructImmutable ==
    [][(obj.state = "live" /\ obj.kind = "Struct" /\ obj'.state = "live") =>
          /\ obj' = obj
          /\ lcall'.op = "setattr" => cres' = "AttributeError"]_vars

\* A Struct with elements and a signature, after an assignment to one of its
\* attributes was refused.
C13_Witness ==
    /\ obj.state = "live" /\ obj.kind = "Struct"
    /\ obj.elems # <<>> /\ obj.signature.t = "Signature"
    /\ obj.variant_level = 1
    /\ lcall.op = "setattr" /\ cres = "AttributeError"

\* Signature(s) for a signature argument Signature accepts; None for none.
ValidatedForm(sig) ==
    IF sig.t \in {"omitted", "None"} THEN PyNone
    ELSE [t |-> "Signature", text |-> sig.text]

\* C14: calling Array with an iterable xs and a valid signature s, or with
\* no signature or None, yields an Array whose elements are those of xs in
\* their order and whose signature is Signature(s), or None.
C14_ArrayHoldsItsArguments ==
    (/\ lcall.op = "call" /\ lcall.kind = "Array"
     /\ lcall.it.t = "seq" /\ ~Rejected(lcall.sig)) =>
        /\ (lcall.n <= 2 /\ Omitted(lcall.vl)) => cres = "ok"
        /\ cres = "ok" =>
              /\ obj.state = "live" /\ obj.kind = "Array"
              /\ obj.elems = lcall.it.items
              /\ obj.signature = ValidatedForm(lcall.sig)

\* An Array made from two different items and a signature text.
C14_Witness ==
    /\ lcall.op = "call" /\ lcall.kind = "Array" /\ lcall.n = 2
    /\ lcall.it.items = <<"y", "x">>
    /\ lcall.sig = [t |-> "str", text |-> "i"]
    /\ obj.state = "live" /\ obj.elems = <<"y", "x">>
    /\ obj.signature = [t |-> "Signature", text |-> "i"]

\* The name the type of a container of this kind shows.
TypeName(kind) ==
    CASE kind = "Array" -> "dbus.Array"
      [] kind = "Dict" -> "dbus.Dictionary"
      [] kind = "Struct" -> "dbus.Struct"

\* C15: the display form of a container is its type's name, the display
\* form of its base container and that of its signature, followed by the
\* variant_level clause showing the container's variant_level; the clause is
\* left out exactly when variant_level is 0.
C15_ReprShowsVariantLevel ==
    (lcall.op = "repr" /\ cres = "ok") =>
        /\ out.name = TypeName(obj.kind)
        /\ out.base = obj.elems
        /\ out.signature = obj.signature
        /\ out.clause = IF obj.variant_level = 0 THEN <<>>
                        ELSE <<obj.variant_level>>

(***************************************************************************)
(* Further properties of the PendingCall bridge.                           *)
(***************************************************************************)

\* C16: the bridge holds its reference to the callable only while the call
\* is pending: once the notification has fired the reference has been
\* dropped, however long the PendingCall lives on, and when the PendingCall
\* is destroyed first the reference is dropped at its destruction.  Stated
\* for a reply that arrives after the PendingCall was created.
C16_HandlerHeldOnlyWhilePending ==
    created =>
        /\ (replyArrived = "late" /\ completed /\ NotificationOver) =>
               hDecref = 1
        /\ self.state = "dead" => hDecref = 1

\* The scheduling the bridge relies on.  A thread waiting for the
\* interpreter lock gets it if it is free again and again (the interpreter
\* makes the thread that runs Python code give it up at intervals); the
\* handler and the warnings machinery come to an end, however often they
\* give the lock up on the way; libdbus goes on after the notify function has returned
\* (where its last unref of the handle waits for the lock in the free
\* function); dbus_pending_call_block returns once the call is completed;
\* and a method or the deallocator, once entered, runs on to its end.
Fairness ==
    /\ \A c \in Ctx :
          /\ SF_vars(NotifyEnsure(c))
          /\ WF_vars(NotifySteal(c))
          /\ WF_vars(NotifyWarn(c))
          /\ SF_vars(\E error \in BOOLEAN : NotifyWarnDone(c, error))
          /\ SF_vars(PyTakeBack(c))
          /\ WF_vars(\E ok \in BOOLEAN : NotifyDecode(c, ok))
          /\ WF_vars(NotifyCall(c))
          /\ SF_vars(\E raises \in BOOLEAN : NotifyCallDone(c, raises))
          /\ WF_vars(NotifyRelease(c))
          /\ SF_vars(LibAfterNotify(c))
    /\ WF_vars(HostYield)
    /\ WF_vars(BlockReturns)
    /\ SF_vars(BlockEnd)
    /\ WF_vars(CancelCall) /\ SF_vars(CancelEnd)
    /\ WF_vars(GetCompletedCall) /\ SF_vars(GetCompletedEnd)
    /\ WF_vars(DeallocCheck) /\ WF_vars(DeallocUnref)
    /\ SF_vars(DeallocEndAllow) /\ WF_vars(DeallocDel)

FairSpec == Spec /\ Fairness

\* C17: a thread waiting in _block() does not hold the interpreter lock, so
\* when the call is completed during the wait, by the dispatching thread or
\* by the waiting thread itself, the notify function gets the lock and runs
\* to its end, and _block() returns.
C17_BlockedWaiterLetsCallbackRun ==
    \A c \in Ctx :
        /\ (hpc = "block_call" /\ cb[c].pos = "ensure") ~> (cb[c].pos = "idle")
        /\ (hpc = "block_call" /\ cb[c].pos = "ensure") ~> blockReturned

\* The host thread waits in _block() while the notify function, in the
\* dispatching thread, holds the lock and is about to call the handler.
C17_Witness ==
    /\ hpc = "block_call" /\ ~blockReturned
    /\ cb["lib"].pos = "call" /\ gil = "lib"

\* How many warnings a behaviour with repeated notifications may collect.
MaxWarnings == 2

\* A library that notifies again: with h1 completed and the notify function
\* still registered, it calls the function once more, in the dispatching
\* thread or in the thread that waits in dbus_pending_call_block, holding a
\* reference to the handle for the duration.
LibNotifyAgain(c) ==
    /\ ~crashed
    /\ completed /\ notify /\ refs["h1"] > 0
    /\ cb[c].pos = "idle"
    /\ c = "host" => hpc = "block_call"
    /\ warnings < MaxWarnings
    /\ refs' = [refs EXCEPT !["h1"] = @ + 1]
    /\ cb' = [cb EXCEPT ![c] = [CbIdle EXCEPT !.pos = "ensure"]]
    /\ UNCHANGED <<gil, hpc, after, self, attached, completed, reply, notify,
                   crashed, err, hIncref, hDecref, handlerArgs, warnings,
                   unrefCalls, cancelCalls, created, replyArrived,
                   cancelledFirst, blockReturned, lastCompleted, ret>>
    /\ UNCHANGED cvars

RenotifyNext ==
    \/ Next
    \/ \E c \in Ctx : LibNotifyAgain(c)

RenotifySpec == Init /\ [][RenotifyNext]_vars

\* C18: however often the library runs the notify function for the handle,
\* the handler is called at most once: a run that is about to call it is the
\* first to do so, and a run that finds no reply stored goes to the warning
\* and not to the call.
C18_AtMostOnceUnderRenotify ==
    /\ HandlerCalls <= 1
    /\ \A c \in Ctx :
          /\ (cb[c].pos = "call" /\ cb[c].py = "none") => HandlerCalls = 0
          /\ cb[c].pos \in {"decode", "call"} => cb[c].msg # "none"

\* The handler was called once, and a later run of the notify function for
\* the same handle found no reply and warned.
C18_Witness ==
    /\ HandlerCalls = 1 /\ warnings >= 1
    /\ NotificationOver

\* C19: a run of the notify function that finds no reply on the handle
\* issues one warning, calls no handler, does not end the program, and
\* returns to libdbus having given the interpreter lock back.
C19_NoReplyWarnsAndReturns ==
    /\ [](\A c \in Ctx :
            /\ cb[c].pos = "warn" => cb[c].msg = "none"
            /\ cb[c].path = "noreply" =>
                  /\ cb[c].pos \in {"release", "return"}
                  /\ cb[c].msg = "none" /\ warnings >= 1 /\ ~crashed
            /\ (cb[c].path = "noreply" /\ cb[c].pos = "return") =>
                  /\ cb[c].acq = 1 /\ cb[c].rel = 1
                  /\ gil # c)
    /\ [][\A c \in Ctx :
            /\ (cb[c].pos = "steal" /\ reply = "none"
                  /\ cb'[c].pos # "steal") => cb'[c].pos = "warn"
            /\ (cb[c].pos = "warn" /\ cb[c].py = "none"
                  /\ cb'[c] # cb[c]) =>
                  /\ cb'[c].pos = "warn"
                  /\ warnings' = warnings + 1
                  /\ ~crashed'
            /\ (cb[c].pos = "warn" /\ cb'[c] # cb[c]) =>
                  /\ cb'[c].pos \in {"warn", "release"}
                  /\ handlerArgs' = handlerArgs
            /\ (cb[c].path = "noreply" /\ cb[c].pos = "release"
                  /\ cb'[c].pos # "release") =>
                  /\ cb'[c].pos = "return"
                  /\ handlerArgs' = handlerArgs]_vars

\* A wait that timed out on a call nobody cancelled: the notify function
\* ran with no reply, warned and is back in libdbus; no handler was called.
C19_Witness ==
    /\ ~cancelledFirst /\ warnings = 1 /\ HandlerCalls = 0
    /\ \E c \in Ctx : cb[c].pos = "return" /\ cb[c].path = "noreply"

\* C20: when __init__ of an Array or a Dictionary fails, wherever it fails
\* (the arguments do not parse, Signature refuses the signature, the
\* temporary tuple cannot be built, list.__init__ or dict.__init__ fails),
\* it has given back every reference it took during the call.
C20_FailedInitKeepsNothing ==
    (lcall.op \in {"call", "init"} /\ lcall.kind \in {"Array", "Dict"}
        /\ cres # "ok") => owned = {}

\* A Dictionary whose __init__ was called again with a valid signature and
\* a value that cannot be iterated: dict.__init__ failed after the signature
\* and the tuple had been made, and the call kept neither.
C20_Witness ==
    /\ obj.state = "live" /\ obj.kind = "Dict"
    /\ lcall.op = "init" /\ lcall.sig = [t |-> "str", text |-> "i"]
    /\ cres = "TypeError" /\ obj.signature = PyNone
    /\ owned = {}

\* C21: Array and Dictionary take variant_level from the keyword arguments
\* only.  Called with three positional arguments, the third being any value
\* at all, the call succeeds whenever the first two are acceptable, and the
\* container it makes has variant_level 0.
C21_PositionalVariantLevelIgnored ==
    (lcall.op = "call" /\ lcall.kind \in {"Array", "Dict"} /\ lcall.n = 3) =>
        /\ cres = "ok" <=> (lcall.it.t = "seq" /\ ~Rejected(lcall.sig))
        /\ cres = "ok" => (obj.state = "live" /\ obj.variant_level = 0)

\* A Dictionary made with 1 as its third positional argument.
C21_Witness ==
    /\ lcall.op = "call" /\ lcall.kind = "Dict" /\ lcall.n = 3
    /\ lcall.vl = [t |-> "int", v |-> 1]
    /\ cres = "ok" /\ obj.state = "live" /\ obj.variant_level = 0

\* The counts of an instance that owns one reference to the object o and
\* none to any other.
OneTo(o) == [x \in SigObjects |-> IF x = o THEN 1 ELSE 0]

\* C22: from allocation through every initialization, successful or failed,
\* to destruction, an Array or Dictionary owns exactly one reference to the
\* signature it currently has and none to any other: a signature that is
\* replaced is released once as it is replaced, and the last one is released
\* once when the instance is destroyed, or when the call that was
\* constructing it fails, after which nothing is held.
C22_OneReferenceToSignature ==
    /\ (obj.state = "live" /\ obj.kind \in {"Array", "Dict"}) =>
           sigrefs = OneTo(obj.signature)
    /\ (obj.state = "none" /\ lcall.kind \in {"Array", "Dict"}) =>
           sigrefs = NoRefs

\* An Array whose __init__, called again, replaced the signature by a
\* Signature: the instance owns one reference to it and none to None.
C22_Witness ==
    /\ obj.state = "live" /\ obj.kind = "Array"
    /\ lcall.op = "init" /\ cres = "ok"
    /\ obj.signature = [t |-> "Signature", text |-> "i"]
    /\ sigrefs[obj.signature] = 1 /\ sigrefs[PyNone] = 0

\* C23: when __init__ is called again on an Array or a Dictionary and
\* fails, the instance has the signature it had before the call; and when
\* the signature passed is one that Signature refuses, it also has the
\* elements it had before the call, the signature being converted before
\* list.__init__ or dict.__init__ is run.
C23_FailedReinitKeepsSignature ==
    [][(/\ obj.state = "live" /\ obj.kind \in {"Array", "Dict"}
        /\ lcall'.op = "init" /\ cres' # "ok") =>
          /\ obj'.state = "live"
          /\ obj'.signature = obj.signature
          /\ Rejected(lcall'.sig) => obj'.elems = obj.elems]_vars

\* An Array with two elements and a Signature, after its __init__ was called
\* again with a text that is no signature: it still has both.
C23_Witness ==
    /\ obj.state = "live" /\ obj.kind = "Array"
    /\ lcall.op = "init" /\ lcall.sig = [t |-> "str", text |-> "!"]
    /\ cres = "ValueError"
    /\ Len(obj.elems) = 2 /\ obj.signature.t = "Signature"

\* C24: once the notify function has returned, on whichever path (the
\* handler returned, the handler raised), it owns no reference to the
\* Message it decoded from the reply.
C24_MessageReleasedAfterCallback ==
    \A c \in Ctx : cb[c].pos = "return" => cb[c].mrefs = 0

\* C25: making the display form of a Struct leaves the reference counts of
\* its signature and of its variant_level as they were: when Struct_tp_repr
\* has returned, with the text or with an error, it has given back the
\* references it got by reading the two attributes.
C25_StructReprReferenceNeutral ==
    (lcall.op = "repr" /\ lcall.kind = "Struct") =>
        owned \cap {"sig", "vl_obj"} = {}
====
